---- MODULE Spec2Model ----
(***************************************************************************)
(* Model of the GlobalBan cog (src/globalban/core.py): the persisted       *)
(* configuration (banned, opted, per-guild banlist), the Discord side the  *)
(* cog talks to (each guild's bans, the guilds bot.get_guild knows) and     *)
(* the four commands optin, optout, ban, unban with the three helpers      *)
(* update_gbs, remove_gbs_guild and remove_gbs_user.                       *)
(*                                                                         *)
(* A command invocation is a coroutine.  Each action below is the code a   *)
(* coroutine runs between two suspension points: the answer of one         *)
(* Discord call (guild.bans(), guild.ban, guild.unban, modlog.create_case) *)
(* up to the next call it issues.  A listing takes two actions: Discord    *)
(* takes the snapshot (..Fetch), then the coroutine receives it (..Check). *)
(* Ban reasons are carried to guild.ban and create_case unchanged and      *)
(* never branched on; the roster is modelled by its keys.                  *)
(***************************************************************************)
EXTENDS Integers, Sequences, FiniteSets, TLC

\* ---------------------------------------------------------------- bounds
MaxCmds == 3       \* commands invoked and moderators' bans in one behaviour
MaxRuns == 4       \* commands invoked in one behaviour of SpecRuns
MaxFaults == 1     \* provider failures and guild removals in one behaviour
MaxBanlist == 5    \* longest banlist a guild's config may reach

Guilds == {1, 2}
Users == {1, 2}
\* Up to two invocations may overlap.
Procs == {1, 2}

VARIABLES
    banned,     \* config.banned: the roster's keys (str), in dict order
    opted,      \* config.opted: list of guild ids
    banlist,    \* config.guild(g).banlist: list of ids as stored
    bans,       \* Discord: the users banned in each guild
    known,      \* Discord: the guilds bot.get_guild returns
    pc,         \* per invocation: where the coroutine is suspended
    cmd,        \* per invocation: the command being run
    arg,        \* per invocation: ctx.guild.id (optin, optout) or user_id
    loc,        \* per invocation: the locals of the helper it is running
    rec,        \* whether this behaviour keeps the call record below
    calls,      \* per invocation: the Discord/modlog calls of its command
    pre,        \* per invocation: bans, banlist, roster when its helper
                \* began, and whether it repeats the preceding run's inputs
    prev,       \* per invocation: pairs the preceding unchanged run handled
    last,       \* the last finished update_gbs run: the pairs it handled
                \* and the bans it began with
    snap,       \* per guild: its bans when it last entered config.opted
    ncmds,      \* commands started so far
    nfaults,    \* provider failures and guild removals so far
    nlocal      \* bans placed by moderators so far

vars == <<banned, opted, banlist, bans, known, pc, cmd, arg, loc, rec, calls,
          pre, prev, last, snap, ncmds, nfaults, nlocal>>

cfgvars == <<banned, opted, banlist>>
histvars == <<rec, pre, prev, last, snap>>

\* ------------------------------------------------------ Python values
\* An identifier as Python holds it: the int 42 and the str "42" are
\* different values and never compare equal.
PyInt(n) == [t |-> "int", v |-> n]
PyStr(n) == [t |-> "str", v |-> n]
\* int(x) and str(x) on identifiers.
ToInt(x) == PyInt(x.v)
ToStr(x) == PyStr(x.v)

Range(s) == {s[i] : i \in 1..Len(s)}
\* Python's `x in lst`.
InList(x, lst) == x \in Range(lst)

RECURSIVE SortedSeq(_)
\* Discord returns ban entries ordered by user id.
SortedSeq(S) ==
    IF S = {} THEN <<>>
    ELSE LET lo == CHOOSE x \in S : \A y \in S : x <= y
         IN <<lo>> \o SortedSeq(S \ {lo})

\* lst.remove(x): drops the first occurrence.
RECURSIVE ListRemove(_, _)
ListRemove(lst, x) ==
    IF lst = <<>> THEN <<>>
    ELSE IF Head(lst) = x THEN Tail(lst)
    ELSE <<Head(lst)>> \o ListRemove(Tail(lst), x)

\* banned[str(user_id)] = reason: a new key goes last, an old key stays.
DictSet(d, k) == IF InList(k, d) THEN d ELSE Append(d, k)
\* if str(user_id) in banned: del banned[str(user_id)]
DictDel(d, k) == ListRemove(d, k)

\* [be.user.id for be in ban_entries]
EntryIds(es) == [i \in 1..Len(SortedSeq(es)) |-> PyInt(SortedSeq(es)[i])]

Call(op, g, u, res) == [op |-> op, g |-> g, u |-> u, res |-> res]

NoLoc == [gids |-> <<>>, gi |-> 0, uids |-> <<>>, ui |-> 0, entries |-> {},
          listok |-> TRUE, m |-> FALSE]
NoRun == [valid |-> FALSE, handled |-> {}, bans |-> [g \in Guilds |-> {}]]
NoPre == [bans |-> [g \in Guilds |-> {}], banlist |-> [g \in Guilds |-> <<>>],
          banned |-> <<>>, again |-> FALSE]
\* What a helper finds when it begins.
Pre == [bans |-> bans, banlist |-> banlist, banned |-> banned, again |-> FALSE]

\* __init__ registers banned={}, opted=[], banlist=[] (lines 56-58); what
\* Discord holds (each guild's bans) is whatever it is when the cog loads.
Start ==
    /\ banned = <<>>
    /\ opted = <<>>
    /\ banlist = [g \in Guilds |-> <<>>]
    /\ bans \in [Guilds -> SUBSET Users]
    /\ known = Guilds
    /\ pc = [p \in Procs |-> "idle"]
    /\ cmd = [p \in Procs |-> "none"]
    /\ arg = [p \in Procs |-> 0]
    /\ loc = [p \in Procs |-> NoLoc]
    /\ calls = [p \in Procs |-> <<>>]
    /\ pre = [p \in Procs |-> NoPre]
    /\ prev = [p \in Procs |-> {}]
    /\ last = NoRun
    /\ snap = [g \in Guilds |-> {}]
    /\ ncmds = 0
    /\ nfaults = 0
    /\ nlocal = 0

\* Overlapping commands are checked without the call record, commands run
\* one after the other with it.
Init == Start /\ rec = FALSE
InitSeq == Start /\ rec = TRUE

Startable(p) == pc[p] \in {"idle", "done", "failed"}
Goto(p, label) == pc' = [pc EXCEPT ![p] = label]
SetLoc(p, r) == loc' = [loc EXCEPT ![p] = r]
\* The coroutine ends: "done" when the command returned, "failed" when an
\* exception left it.  Its locals are gone.
Finish(p, how) == Goto(p, how) /\ SetLoc(p, NoLoc)

Log(p, c) ==
    calls' = IF rec THEN [calls EXCEPT ![p] = Append(@, c)] ELSE calls

\* A command is invoked: a fresh coroutine with an empty call record.  A new
\* invocation takes the lowest free slot.
Begin(p, c, a, next) ==
    /\ Startable(p)
    /\ \A q \in Procs : q < p => ~Startable(q)
    /\ ncmds' = ncmds + 1
    /\ cmd' = [cmd EXCEPT ![p] = c]
    /\ arg' = [arg EXCEPT ![p] = a]
    /\ Goto(p, next)
    /\ SetLoc(p, NoLoc)
    /\ calls' = [calls EXCEPT ![p] = <<>>]
    /\ pre' = [pre EXCEPT ![p] = IF rec THEN Pre ELSE NoPre]
    /\ prev' = [prev EXCEPT ![p] = {}]
    /\ UNCHANGED <<rec, nlocal>>

\* A provider call may fail only while the fault budget lasts.
MayFail == nfaults < MaxFaults
Fault(failed) == nfaults' = IF failed THEN nfaults + 1 ELSE nfaults

\* ------------------------------------------------------------- optin
\* optin, lines 108-117: the transaction on config.opted.
Optin(p, g) ==
    /\ g \in known
    /\ \E confirmed \in BOOLEAN :
         IF InList(g, opted) \/ ~confirmed
         THEN /\ Begin(p, "optin", g, "done")
              /\ UNCHANGED <<opted, snap, last, nlocal>>
         ELSE /\ Begin(p, "optin", g, "optin_fetch")
              /\ opted' = Append(opted, g)
              /\ snap' = [snap EXCEPT ![g] = bans[g]]
              /\ last' = NoRun
    /\ UNCHANGED <<banned, banlist, bans, known, nfaults, nlocal>>

\* optin, line 118: Discord answers ctx.guild.bans(); Forbidden is not caught.
OptinFetch(p) ==
    /\ pc[p] = "optin_fetch"
    /\ \E ok \in BOOLEAN :
         /\ ~ok => MayFail
         /\ Fault(~ok)
         /\ Log(p, Call("list", arg[p], 0, IF ok THEN "ok" ELSE "failed"))
         /\ IF ok
            THEN /\ SetLoc(p, [loc[p] EXCEPT !.entries = bans[arg[p]]])
                 /\ Goto(p, "optin_set")
            ELSE Finish(p, "failed")
    /\ UNCHANGED <<cfgvars, bans, known, cmd, arg, histvars, ncmds, nlocal>>

\* optin, line 119: banlist.set([be.user.id for be in ban_entries]).
OptinSet(p) ==
    /\ pc[p] = "optin_set"
    /\ banlist' = [banlist EXCEPT ![arg[p]] = EntryIds(loc[p].entries)]
    /\ Goto(p, "ugs_start")
    /\ SetLoc(p, NoLoc)
    /\ UNCHANGED <<banned, opted, bans, known, cmd, arg, calls, histvars, ncmds,
                   nfaults, nlocal>>

\* ------------------------------------------------------------ optout
\* optout, lines 130-141: the transaction on config.opted.
Optout(p, g) ==
    /\ g \in known
    /\ \E confirmed \in BOOLEAN :
         IF ~InList(g, opted) \/ ~confirmed
         THEN /\ Begin(p, "optout", g, "done")
              /\ UNCHANGED <<opted, last>>
         ELSE /\ Begin(p, "optout", g, "rgg_fetch")
              /\ opted' = ListRemove(opted, g)
              /\ last' = NoRun
    /\ UNCHANGED <<banned, banlist, bans, known, snap, nfaults, nlocal>>

\* ----------------------------------------------------- ban and unban
\* ban, lines 154-155: banned[str(user_id)] = reason.
Ban(p, u) ==
    /\ Begin(p, "ban", u, "ugs_start")
    /\ banned' = DictSet(banned, ToStr(PyInt(u)))
    /\ last' = IF banned' = banned THEN last ELSE NoRun
    /\ UNCHANGED <<opted, banlist, bans, known, snap, nfaults, nlocal>>

\* unban, lines 182-184: del banned[str(user_id)] when present.
Unban(p, u) ==
    /\ Begin(p, "unban", u, "rgu_start")
    /\ banned' = DictDel(banned, ToStr(PyInt(u)))
    /\ last' = IF banned' = banned THEN last ELSE NoRun
    /\ UNCHANGED <<opted, banlist, bans, known, snap, nfaults, nlocal>>

\* -------------------------------------------------------- update_gbs
BanOps == {"ban", "ban_member"}

\* The (guild, user) pairs a run left banned or found banned.
Handled(log) ==
    {<<c.g, c.u>> : c \in {d \in Range(log) :
        \/ d.op = "list" /\ d.res = "banned"
        \/ d.op \in BanOps /\ d.res = "success"}}

\* update_gbs, line 201: `for gid in await self.config.opted()`.
UgsStart(p) ==
    /\ pc[p] = "ugs_start"
    /\ SetLoc(p, [NoLoc EXCEPT !.gids = opted, !.gi = 1])
    /\ IF rec
       THEN /\ pre' = [pre EXCEPT ![p] =
                      [Pre EXCEPT !.again = last.valid /\ last.bans = bans]]
            /\ prev' = [prev EXCEPT ![p] = IF last.valid THEN last.handled ELSE {}]
       ELSE UNCHANGED <<pre, prev>>
    /\ last' = NoRun
    /\ Log(p, Call("update_gbs", 0, 0, "begin"))
    /\ Goto(p, "ugs_guild")
    /\ UNCHANGED <<cfgvars, bans, known, cmd, arg, rec, snap, ncmds, nfaults, nlocal>>

\* update_gbs, lines 201-207: the head of the guild loop.  After the last
\* guild the helper returns and the command ends (ctx.tick()).
UgsGuild(p) ==
    /\ pc[p] = "ugs_guild"
    /\ LET L == loc[p] IN
       IF L.gi > Len(L.gids)
       THEN /\ Finish(p, "done")
            /\ last' = IF rec
                       THEN [valid |-> TRUE, handled |-> Handled(calls[p]),
                             bans |-> pre[p].bans]
                       ELSE NoRun
            /\ UNCHANGED calls
       ELSE LET gid == L.gids[L.gi] IN
            IF gid \notin known
            THEN /\ SetLoc(p, [L EXCEPT !.gi = @ + 1])
                 /\ Log(p, Call("get_guild", gid, 0, "none"))
                 /\ UNCHANGED <<pc, last>>
            ELSE /\ Log(p, Call("get_guild", gid, 0, "ok"))
                 /\ IF banned = <<>>
                    THEN /\ SetLoc(p, [L EXCEPT !.gi = @ + 1])
                         /\ UNCHANGED pc
                    ELSE /\ SetLoc(p, [L EXCEPT !.uids = banned, !.ui = 1])
                         /\ Goto(p, "ugs_fetch")
                 /\ UNCHANGED last
    /\ UNCHANGED <<cfgvars, bans, known, cmd, arg, rec, pre, prev, snap, ncmds,
                   nfaults, nlocal>>

\* Mutant of UgsContinue: `break` -- the rest of the guild's roster is dropped.
UgsBreak(p) ==
    /\ SetLoc(p, [NoLoc EXCEPT !.gids = loc[p].gids, !.gi = loc[p].gi + 1])
    /\ Goto(p, "ugs_guild")

\* `continue` in the user loop (lines 214, 217) and the end of its body:
\* the next roster item of this guild, or else the next guild.
UgsContinue(p) ==
    LET L == loc[p] IN
    IF L.ui < Len(L.uids)
    THEN /\ SetLoc(p, [L EXCEPT !.ui = @ + 1, !.entries = {}, !.listok = TRUE,
                                !.m = FALSE])
         /\ Goto(p, "ugs_fetch")
    ELSE /\ SetLoc(p, [NoLoc EXCEPT !.gids = L.gids, !.gi = L.gi + 1])
         /\ Goto(p, "ugs_guild")

\* update_gbs, line 209: Discord answers guild.bans() with its bans of
\* that moment, or the call raises.
UgsFetch(p) ==
    /\ pc[p] = "ugs_fetch"
    /\ LET L == loc[p] IN
       \E ok \in BOOLEAN :
         /\ ~ok => MayFail
         /\ Fault(~ok)
         /\ SetLoc(p, [L EXCEPT !.listok = ok,
                                !.entries = IF ok THEN bans[L.gids[L.gi]] ELSE {}])
    /\ Goto(p, "ugs_check")
    /\ UNCHANGED <<cfgvars, bans, known, cmd, arg, calls, histvars, ncmds, nlocal>>

\* Mutant of UgsAlreadyBanned: the str key is compared without int().
UgsAlreadyBannedNoInt(uid, es) == uid \in {PyInt(b) : b \in es}

\* update_gbs, line 210: int(uid) in [b.user.id for b in ban_entries].
UgsAlreadyBanned(uid, es) == ToInt(uid) \in {PyInt(b) : b \in es}

\* Mutant of UgsRecord: int(uid) is appended, as it is tested.
UgsRecordInt(lst, uid) ==
    IF ~InList(ToInt(uid), lst) THEN Append(lst, ToInt(uid)) ELSE lst

\* update_gbs, lines 211-213: the transaction on the guild's banlist.
UgsRecord(lst, uid) == IF ~InList(ToInt(uid), lst) THEN Append(lst, uid) ELSE lst

\* Mutant of UgsOnListFailure: the handler leaves the guild (`break`).
UgsOnListFailureSkipGuild(p) ==
    /\ SetLoc(p, [NoLoc EXCEPT !.gids = loc[p].gids, !.gi = loc[p].gi + 1])
    /\ Goto(p, "ugs_guild")

\* update_gbs, lines 215-217: except (AttributeError, discord.Forbidden):
\* log.exception(...); continue -- the innermost loop is the user loop.
UgsOnListFailure(p) == UgsContinue(p)

\* update_gbs, lines 208-218: the coroutine receives the listing.
UgsCheck(p) ==
    /\ pc[p] = "ugs_check"
    /\ LET L == loc[p]
           gid == L.gids[L.gi]
           uid == L.uids[L.ui]
       IN IF ~L.listok
          THEN /\ Log(p, Call("list", gid, uid.v, "failed"))
               /\ UgsOnListFailure(p)
               /\ UNCHANGED banlist
          ELSE IF UgsAlreadyBanned(uid, L.entries)
          THEN /\ Len(UgsRecord(banlist[gid], uid)) <= MaxBanlist
               /\ banlist' = [banlist EXCEPT ![gid] = UgsRecord(@, uid)]
               /\ Log(p, Call("list", gid, uid.v, "banned"))
               /\ UgsContinue(p)
          ELSE /\ Log(p, Call("list", gid, uid.v, "absent"))
               /\ \E member \in BOOLEAN : SetLoc(p, [L EXCEPT !.m = member])
               /\ Goto(p, "ugs_ban")
               /\ UNCHANGED banlist
    /\ UNCHANGED <<banned, opted, bans, known, cmd, arg, histvars, ncmds, nfaults, nlocal>>

\* Mutant of UgsAfterBan: create_case sits after the try, so it also runs
\* when the ban was refused.
UgsAfterBanAuditAlways(res, member) ==
    IF res = "not_found" /\ member THEN "raise" ELSE "audit"

\* update_gbs, lines 220-247: what follows guild.ban's answer.  NotFound is
\* caught only around the ban by discord.Object (m is None); Forbidden is
\* caught by the outer handler; any other exception leaves update_gbs.
UgsAfterBan(res, member) ==
    IF res = "success" THEN "audit"
    ELSE IF res = "not_found" THEN (IF member THEN "raise" ELSE "audit")
    ELSE "continue"

\* update_gbs, lines 220-247: Discord answers guild.ban.
UgsBan(p) ==
    /\ pc[p] = "ugs_ban"
    /\ LET L == loc[p]
           gid == L.gids[L.gi]
           uid == L.uids[L.ui]
       IN \E res \in {"success", "not_found", "forbidden"} :
            /\ res # "success" => MayFail
            /\ Fault(res # "success")
            /\ Log(p, Call(IF L.m THEN "ban_member" ELSE "ban", gid, uid.v, res))
            /\ bans' = IF res = "success"
                       THEN [bans EXCEPT ![gid] = @ \cup {uid.v}]
                       ELSE bans
            /\ CASE UgsAfterBan(res, L.m) = "audit" ->
                        Goto(p, "ugs_audit") /\ UNCHANGED loc
                 [] UgsAfterBan(res, L.m) = "continue" -> UgsContinue(p)
                 [] OTHER -> Finish(p, "failed")
    /\ UNCHANGED <<cfgvars, known, cmd, arg, histvars, ncmds, nlocal>>

\* update_gbs, lines 237-244: modlog.create_case(action_type="globalban").
UgsAudit(p) ==
    /\ pc[p] = "ugs_audit"
    /\ LET L == loc[p] IN Log(p, Call("audit", L.gids[L.gi], L.uids[L.ui].v, "globalban"))
    /\ UgsContinue(p)
    /\ UNCHANGED <<cfgvars, bans, known, cmd, arg, histvars, ncmds, nfaults, nlocal>>

\* -------------------------------------------------- remove_gbs_guild
\* remove_gbs_guild, lines 250-252: get_guild, then Discord answers
\* guild.bans(), taken to yield the guild's ban entries as it does in the
\* other two helpers.  Nothing here is caught: a guild the bot no longer
\* knows (guild is None) or a Forbidden ends the command with an exception.
RggFetch(p) ==
    /\ pc[p] = "rgg_fetch"
    /\ IF arg[p] \notin known
       THEN /\ Finish(p, "failed")
            /\ Log(p, Call("get_guild", arg[p], 0, "none"))
            /\ UNCHANGED nfaults
       ELSE \E ok \in BOOLEAN :
            /\ ~ok => MayFail
            /\ Fault(~ok)
            /\ Log(p, Call("list", arg[p], 0, IF ok THEN "ok" ELSE "failed"))
            /\ IF ok
               THEN /\ SetLoc(p, [NoLoc EXCEPT !.entries = bans[arg[p]], !.ui = 1])
                    /\ Goto(p, "rgg_next")
               ELSE Finish(p, "failed")
    /\ UNCHANGED <<cfgvars, bans, known, cmd, arg, histvars, ncmds, nlocal>>

\* Mutant of RggSkip: the roster test is dropped, only the banlist protects.
RggSkipNoRoster(gid, user) == InList(PyInt(user), banlist[gid])

\* remove_gbs_guild, lines 255-259: the test that skips a ban entry.
RggSkip(gid, user) ==
    \/ ~InList(ToStr(PyInt(user)), banned)
    \/ InList(PyInt(user), banlist[gid])

\* The first entry from index k on that is not skipped, 0 when there is none.
RECURSIVE RggFirst(_, _, _)
RggFirst(gid, es, k) ==
    IF k > Len(es) THEN 0
    ELSE IF RggSkip(gid, es[k]) THEN RggFirst(gid, es, k + 1)
    ELSE k

\* remove_gbs_guild, lines 252-262: run the loop up to the next guild.unban.
RggNext(p) ==
    /\ pc[p] = "rgg_next"
    /\ LET k == RggFirst(arg[p], SortedSeq(loc[p].entries), loc[p].ui)
       IN IF k = 0
          THEN Finish(p, "done")
          ELSE /\ Goto(p, "rgg_unban")
               /\ SetLoc(p, [loc[p] EXCEPT !.ui = k])
    /\ UNCHANGED <<cfgvars, bans, known, cmd, arg, calls, histvars, ncmds, nfaults, nlocal>>

\* remove_gbs_guild, lines 261-264: Discord answers guild.unban.
RggUnban(p) ==
    /\ pc[p] = "rgg_unban"
    /\ LET user == SortedSeq(loc[p].entries)[loc[p].ui]
       IN \E res \in {"success", "forbidden"} :
            /\ res # "success" => MayFail
            /\ Fault(res # "success")
            /\ Log(p, Call("unban", arg[p], user, res))
            /\ bans' = IF res = "success"
                       THEN [bans EXCEPT ![arg[p]] = @ \ {user}]
                       ELSE bans
    /\ SetLoc(p, [loc[p] EXCEPT !.ui = @ + 1])
    /\ Goto(p, "rgg_next")
    /\ UNCHANGED <<cfgvars, known, cmd, arg, histvars, ncmds, nlocal>>

\* --------------------------------------------------- remove_gbs_user
\* remove_gbs_user, line 267: `for gid in await self.config.opted()`.
RguStart(p) ==
    /\ pc[p] = "rgu_start"
    /\ SetLoc(p, [NoLoc EXCEPT !.gids = opted, !.gi = 1])
    /\ Goto(p, "rgu_guild")
    /\ UNCHANGED <<cfgvars, bans, known, cmd, arg, calls, histvars, ncmds, nfaults, nlocal>>

\* Mutant of RguProtected: the banlist test is dropped.
RguProtectedNever(gid, uid) == FALSE

\* remove_gbs_user, line 273: `uid in banlist`, uid being the int argument.
RguProtected(gid, uid) == InList(PyInt(uid), banlist[gid])

\* The next guild of remove_gbs_user's loop.
RguContinue(p) ==
    /\ SetLoc(p, [NoLoc EXCEPT !.gids = loc[p].gids, !.gi = loc[p].gi + 1])
    /\ Goto(p, "rgu_guild")

\* remove_gbs_user, lines 267-277: the head of the guild loop.
RguGuild(p) ==
    /\ pc[p] = "rgu_guild"
    /\ LET L == loc[p] IN
       IF L.gi > Len(L.gids)
       THEN /\ Finish(p, "done")
            /\ UNCHANGED calls
       ELSE LET gid == L.gids[L.gi] IN
            IF gid \notin known
            THEN /\ RguContinue(p)
                 /\ Log(p, Call("get_guild", gid, 0, "none"))
            ELSE /\ Log(p, Call("get_guild", gid, 0, "ok"))
                 /\ IF RguProtected(gid, arg[p])
                    THEN RguContinue(p)
                    ELSE Goto(p, "rgu_fetch") /\ UNCHANGED loc
    /\ UNCHANGED <<cfgvars, bans, known, cmd, arg, histvars, ncmds, nfaults, nlocal>>

\* remove_gbs_user, line 277: Discord answers guild.bans().
RguFetch(p) ==
    /\ pc[p] = "rgu_fetch"
    /\ LET L == loc[p] IN
       \E ok \in BOOLEAN :
         /\ ~ok => MayFail
         /\ Fault(~ok)
         /\ SetLoc(p, [L EXCEPT !.listok = ok,
                                !.entries = IF ok THEN bans[L.gids[L.gi]] ELSE {}])
    /\ Goto(p, "rgu_check")
    /\ UNCHANGED <<cfgvars, bans, known, cmd, arg, calls, histvars, ncmds, nlocal>>

\* Mutant of RguUsers: the filter on b.user.id is dropped, any entry matches.
RguUsersAny(es, uid) == es

\* remove_gbs_user, line 278: [b.user for b in ban_entries if b.user.id == int(uid)]
RguUsers(es, uid) == {b \in es : PyInt(b) = ToInt(PyInt(uid))}

\* remove_gbs_user, lines 276-285: the coroutine receives the listing.
RguCheck(p) ==
    /\ pc[p] = "rgu_check"
    /\ LET L == loc[p]
           gid == L.gids[L.gi]
       IN IF ~L.listok
          THEN /\ Log(p, Call("list", gid, arg[p], "failed"))
               /\ RguContinue(p)
          ELSE IF RguUsers(L.entries, arg[p]) # {}
          THEN /\ Log(p, Call("list", gid, arg[p], "banned"))
               /\ Goto(p, "rgu_unban")
               /\ UNCHANGED loc
          ELSE /\ Log(p, Call("list", gid, arg[p], "absent"))
               /\ RguContinue(p)
    /\ UNCHANGED <<cfgvars, bans, known, cmd, arg, histvars, ncmds, nfaults, nlocal>>

\* remove_gbs_user, lines 283-287: Discord answers guild.unban(users[0]).
RguUnban(p) ==
    /\ pc[p] = "rgu_unban"
    /\ LET gid == loc[p].gids[loc[p].gi]
       IN \E res \in {"success", "forbidden"} :
            /\ res # "success" => MayFail
            /\ Fault(res # "success")
            /\ Log(p, Call("unban", gid, arg[p], res))
            /\ bans' = IF res = "success"
                       THEN [bans EXCEPT ![gid] = @ \ {arg[p]}]
                       ELSE bans
    /\ RguContinue(p)
    /\ UNCHANGED <<cfgvars, known, cmd, arg, histvars, ncmds, nlocal>>

\* ------------------------------------------------------- environment
\* The bot is removed from a guild: from then on bot.get_guild(gid) is None
\* (the case lines 204 and 270 test for).
GuildRemove(g) ==
    /\ g \in known
    /\ MayFail
    /\ nfaults' = nfaults + 1
    /\ known' = known \ {g}
    /\ UNCHANGED <<cfgvars, bans, pc, cmd, arg, loc, calls, histvars, ncmds, nlocal>>

\* A moderator of guild g bans user u in Discord, outside the cog, between
\* two commands: the kind of ban optin's snapshot (lines 118-119) calls
\* pre-existing when it is placed before the opt-in.
LocalBan(g, u) ==
    /\ \A p \in Procs : Startable(p)
    /\ u \notin bans[g]
    /\ ncmds + nlocal < MaxCmds
    /\ nlocal' = nlocal + 1
    /\ bans' = [bans EXCEPT ![g] = @ \cup {u}]
    /\ last' = NoRun
    /\ UNCHANGED <<cfgvars, known, pc, cmd, arg, loc, calls, rec, pre, prev, snap,
                   ncmds, nfaults>>

\* ----------------------------------------------------- specification
Invoke(p) ==
    \/ \E g \in Guilds : Optin(p, g)
    \/ \E g \in Guilds : Optout(p, g)
    \/ \E u \in Users : Ban(p, u)
    \/ \E u \in Users : Unban(p, u)

\* A command is invoked while the behaviour's budget of commands lasts.
Command(p) == ncmds + nlocal < MaxCmds /\ Invoke(p)

\* A running coroutine takes its next step.
Resume(p) ==
    \/ OptinFetch(p)
    \/ OptinSet(p)
    \/ UgsStart(p)
    \/ UgsGuild(p)
    \/ UgsFetch(p)
    \/ UgsCheck(p)
    \/ UgsBan(p)
    \/ UgsAudit(p)
    \/ RggFetch(p)
    \/ RggNext(p)
    \/ RggUnban(p)
    \/ RguStart(p)
    \/ RguGuild(p)
    \/ RguFetch(p)
    \/ RguCheck(p)
    \/ RguUnban(p)

Step(p) == Command(p) \/ Resume(p)

Environment == \E g \in Guilds : GuildRemove(g)

\* Commands may overlap: any invocation may take its next step.
Next == (\E p \in Procs : Step(p)) \/ Environment

Spec == Init /\ [][Next]_vars

\* Commands run one after the other: a single invocation at a time.
NextSeq == Step(1) \/ Environment

SpecSeq == InitSeq /\ [][NextSeq]_vars

Moderator == \E g \in Guilds, u \in Users : LocalBan(g, u)

\* Commands run one after the other and the guilds' moderators place bans
\* of their own in between.
NextLocal == Step(1) \/ Environment \/ Moderator

SpecLocal == InitSeq /\ [][NextLocal]_vars

\* Commands run one after the other, one more of them than in SpecSeq.
CommandRuns(p) == ncmds < MaxRuns /\ Invoke(p)

NextRuns == CommandRuns(1) \/ Resume(1) \/ Environment

SpecRuns == InitSeq /\ [][NextRuns]_vars

\* ============================================================ claims
\* Helpers for stating the claims.
InRoster(u) == InList(PyStr(u), banned)
\* u's identifier is in the list, whatever Python type it is stored as.
IdPresent(u, lst) == \E i \in 1..Len(lst) : lst[i].v = u
Entries(p) == Range(calls[p])
Count(p, op, g, u) ==
    Cardinality({i \in 1..Len(calls[p]) :
        calls[p][i].op \in op /\ calls[p][i].g = g /\ calls[p][i].u = u})
\* The invocation entered update_gbs and the helper has ended.
UgsEntered(p) == \E c \in Entries(p) : c.op = "update_gbs"
UgsReturned(p) == pc[p] = "done" /\ UgsEntered(p)
UgsEnded(p) == pc[p] \in {"done", "failed"} /\ UgsEntered(p)
\* The user whose unban remove_gbs_guild has issued.
RggTarget(l) == SortedSeq(l.entries)[l.ui]

\* C1: remove_gbs_user and remove_gbs_guild never issue an unban call for
\* user u in guild C while u's identifier is in C's banlist, whether it got
\* there by the opt-in snapshot or because update_gbs found u already banned.
C1_NoUnbanOfListed ==
    [][\A p \in Procs :
        /\ (pc[p] # "rgu_unban" /\ pc'[p] = "rgu_unban")
              => ~IdPresent(arg[p], banlist[loc[p].gids[loc[p].gi]])
        /\ (pc[p] # "rgg_unban" /\ pc'[p] = "rgg_unban")
              => ~IdPresent(RggTarget(loc'[p]), banlist[arg[p]])]_vars

\* C2: remove_gbs_guild (opt-out of C) issues guild.unban only for users
\* whose str(id) is a key of config.banned, and every user banned in C when
\* the opt-out began whose id is no roster key is still banned in C.
C2_OptoutSparesLocalBans ==
    \A p \in Procs :
        cmd[p] = "optout" =>
            /\ \A c \in Entries(p) : c.op = "unban" => InRoster(c.u)
            /\ \A u \in pre[p].bans[arg[p]] : ~InRoster(u) => u \in bans[arg[p]]

\* C2 witness: an opt-out has returned after unbanning a roster user while a
\* user outside the roster, banned in the guild, was left alone.
C2_Witness ==
    \E p \in Procs :
        /\ cmd[p] = "optout" /\ pc[p] = "done"
        /\ \E c \in Entries(p) : c.op = "unban" /\ c.res = "success"
        /\ \E u \in bans[arg[p]] : ~InRoster(u) /\ ~IdPresent(u, banlist[arg[p]])

\* C3 as stated: when update_gbs returns, every roster user is, in every
\* opted guild, banned, or was banned before the call, or had a ban call
\* that failed with Forbidden.
C3_BannedOrForbidden ==
    \A p \in Procs :
        UgsReturned(p) =>
            \A g \in Range(opted), u \in Users :
                InRoster(u) =>
                    \/ u \in bans[g]
                    \/ u \in pre[p].bans[g]
                    \/ \E c \in Entries(p) :
                          c.op \in BanOps /\ c.g = g /\ c.u = u /\ c.res = "forbidden"

\* The calls of this run that leave (g, u) unbanned without an error escaping.
C3_Excused(p, g, u) ==
    \E c \in Entries(p) :
        /\ c.g = g /\ c.u = u
        /\ \/ c.op = "list" /\ c.res = "failed"
           \/ c.op \in BanOps /\ c.res = "forbidden"
           \/ c.op = "ban" /\ c.res = "not_found"

\* C3 amended: when update_gbs returns, every roster user is, in every opted
\* guild that bot.get_guild knows, banned, or the listing of the guild's bans
\* failed for that user, or a ban call for the pair was answered Forbidden,
\* or a ban by bare identifier was answered NotFound.
C3_BannedOrExcused ==
    \A p \in Procs :
        UgsReturned(p) =>
            \A g \in Range(opted) \cap known, u \in Users :
                InRoster(u) => (u \in bans[g] \/ C3_Excused(p, g, u))

\* C3 witness: a run has returned that banned one roster user and left
\* another pair unbanned because its listing failed.
C3_Witness ==
    \E p \in Procs :
        /\ UgsReturned(p)
        /\ \E c \in Entries(p) : c.op \in BanOps /\ c.res = "success"
        /\ \E c \in Entries(p) :
              /\ c.op = "list" /\ c.res = "failed"
              /\ c.g \in Range(opted) \cap known
              /\ InRoster(c.u) /\ c.u \notin bans[c.g]

\* C4: when update_gbs runs twice in a row with config.banned and
\* config.opted unchanged in between, the second run issues no ban call for
\* any (guild, user) pair the first run banned or found banned.
C4_SecondRunNoBanCalls ==
    \A p \in Procs :
        \A c \in Entries(p) : c.op \in BanOps => <<c.g, c.u>> \notin prev[p]

\* C4 witness: a second consecutive run has returned, having met a pair the
\* first run handled and found it banned.
C4_Witness ==
    \E p \in Procs :
        /\ UgsReturned(p)
        /\ \E c \in Entries(p) :
              c.op = "list" /\ c.res = "banned" /\ <<c.g, c.u>> \in prev[p]

\* C5: whatever Discord answers for one (guild, user) pair, update_gbs still
\* visits every opted guild bot.get_guild knows exactly once and processes
\* every roster user in each of them.
C5_FailuresIsolated ==
    \A p \in Procs :
        UgsEnded(p) =>
            \A g \in Range(opted) \cap known :
                /\ Count(p, {"get_guild"}, g, 0) = 1
                /\ \A u \in Users : InRoster(u) => Count(p, {"list"}, g, u) = 1

\* C6: when guild C opts out and no unban is refused with Forbidden, then C
\* has left config.opted, every user that was banned in C, is a roster key
\* and is not in C's banlist is unbanned in C, and every other user that was
\* banned in C is still banned in C.
C6_OptoutLiftsExactly ==
    \A p \in Procs :
        ( /\ cmd[p] = "optout" /\ pc[p] = "done"
          /\ \E c \in Entries(p) : c.op = "list" /\ c.res = "ok"
          /\ \A c \in Entries(p) : c.op = "unban" => c.res = "success" )
        => /\ ~InList(arg[p], opted)
           /\ \A u \in pre[p].bans[arg[p]] :
                 IF InRoster(u) /\ ~IdPresent(u, banlist[arg[p]])
                 THEN u \notin bans[arg[p]]
                 ELSE u \in bans[arg[p]]

\* C7: when update_gbs finds roster user u already banned in guild C it
\* issues no ban call and writes no audit record for (C, u), and when the
\* call ends u's identifier is in C's banlist so that the membership test
\* remove_gbs_user and remove_gbs_guild make of u against it succeeds.
C7_FoundBannedIsProtected ==
    \A p \in Procs :
        UgsReturned(p) =>
            \A c \in Entries(p) :
                (c.op = "list" /\ c.res = "banned") =>
                    /\ Count(p, BanOps, c.g, c.u) = 0
                    /\ Count(p, {"audit"}, c.g, c.u) = 0
                    /\ IdPresent(c.u, banlist[c.g])
                    /\ RguProtected(c.g, c.u)

C9_SnapshotIsPreOptin ==
    [][\A p \in Procs :
        (pc[p] = "optin_set" /\ pc'[p] = "ugs_start")
            => banlist'[arg[p]] = EntryIds(snap[arg[p]])]_vars

\* Position of x in a list without repetitions.
Pos(lst, x) == CHOOSE i \in 1..Len(lst) : lst[i] = x
\* The indices at which update_gbs' listing of a guild's bans failed.
ListFailures(p) ==
    {i \in 1..Len(calls[p]) :
        calls[p][i].op = "list" /\ calls[p][i].res = "failed" /\ calls[p][i].u # 0}

\* C10 as stated: once listing guild C's bans has failed in update_gbs, no
\* further call of that run concerns C.
C10_GuildSkippedAfterListFailure ==
    \A p \in Procs :
        UgsEntered(p) =>
            \A i \in ListFailures(p) :
                \A j \in (i + 1)..Len(calls[p]) : calls[p][j].g # calls[p][i].g

\* C10 amended: when listing guild C's bans fails for roster user u, the
\* run makes no ban and no audit call for (C, u); it goes on with the next
\* roster user of C, listing C's bans again, and then with the next guild.
C10_PairSkippedAfterListFailure ==
    \A p \in Procs :
        UgsReturned(p) =>
            \A i \in ListFailures(p) :
                LET g == calls[p][i].g
                    u == calls[p][i].u
                IN /\ Count(p, BanOps \cup {"audit"}, g, u) = 0
                   /\ Count(p, {"list"}, g, u) = 1
                   /\ \A k \in (Pos(banned, PyStr(u)) + 1)..Len(banned) :
                         \E j \in (i + 1)..Len(calls[p]) :
                            /\ calls[p][j].op = "list"
                            /\ calls[p][j].g = g
                            /\ calls[p][j].u = banned[k].v
                   /\ \A k \in (Pos(opted, g) + 1)..Len(opted) :
                         \E j \in (i + 1)..Len(calls[p]) :
                            /\ calls[p][j].op = "get_guild"
                            /\ calls[p][j].g = opted[k]

\* C10 witness: a run has returned in which a listing of guild C failed for
\* one roster user and C's bans were listed again for a later one.
C10_Witness ==
    \E p \in Procs :
        /\ UgsReturned(p)
        /\ \E i \in ListFailures(p) :
              \E j \in (i + 1)..Len(calls[p]) :
                 /\ calls[p][j].op = "list"
                 /\ calls[p][j].g = calls[p][i].g
                 /\ calls[p][j].u # calls[p][i].u

\* The (guild, user) pair update_gbs is working on.
UgsGid(l) == l.gids[l.gi]
UgsUid(l) == l.uids[l.ui].v

\* C11 as stated: under any interleaving of overlapping update_gbs,
\* remove_gbs_user and remove_gbs_guild invocations, no ban call is issued
\* for a user who is banned in that guild at the moment the call is made,
\* and no unban call for a user who is not banned in it at that moment.
C11_CheckedAgainstCurrent ==
    [][\A p \in Procs :
        /\ (pc[p] # "ugs_ban" /\ pc'[p] = "ugs_ban")
              => UgsUid(loc'[p]) \notin bans'[UgsGid(loc'[p])]
        /\ (pc[p] # "rgu_unban" /\ pc'[p] = "rgu_unban")
              => arg[p] \in bans'[UgsGid(loc'[p])]
        /\ (pc[p] # "rgg_unban" /\ pc'[p] = "rgg_unban")
              => RggTarget(loc'[p]) \in bans'[arg[p]]]_vars

\* C11 amended: under any interleaving, a ban call is in flight only for a
\* user absent from the listing of the guild's bans that the invocation last
\* received, and an unban call only for a user present in that listing; the
\* listing may be older than the guild's bans of the moment.
C11_CheckedAgainstListing ==
    \A p \in Procs :
        /\ pc[p] = "ugs_ban"
              => loc[p].listok /\ UgsUid(loc[p]) \notin loc[p].entries
        /\ pc[p] = "rgu_unban"
              => loc[p].listok /\ arg[p] \in loc[p].entries
        /\ pc[p] = "rgg_unban"
              => RggTarget(loc[p]) \in loc[p].entries

\* C11 witness: two invocations overlap; one has a ban call in flight for a
\* user the other has banned in that guild since the listing was taken.
C11_Witness ==
    \E p, q \in Procs :
        /\ p # q /\ ~Startable(q)
        /\ pc[p] = "ugs_ban"
        /\ UgsUid(loc[p]) \in bans[UgsGid(loc[p])]
        /\ UgsUid(loc[p]) \notin loc[p].entries

\* The step with which invocation p's command returns.
Returns(p) == pc[p] # "done" /\ pc'[p] = "done"

\* An `unban u` command has returned and u was no roster key when it began.
UnbanOfNonRoster(p) ==
    /\ cmd[p] = "unban" /\ pc[p] = "done"
    /\ ~InList(PyStr(arg[p]), pre[p].banned)

\* C12 as stated: `unban u` for a u that is no key of config.banned issues
\* no unban call in any guild and leaves every guild's bans unchanged.
C12_UnbanOfNonRosterIsNoop ==
    [][\A p \in Procs :
        (Returns(p) /\ UnbanOfNonRoster(p)') =>
            ( /\ \A c \in Entries(p) : c.op # "unban"
              /\ bans = pre[p].bans )']_vars

\* remove_gbs_user reached guild g's bans: g is opted, bot.get_guild knew
\* it, u's int identifier is not in g's banlist and the listing answered.
RguReached(p, g) ==
    /\ InList(g, opted)
    /\ Call("get_guild", g, 0, "ok") \in Entries(p)
    /\ ~InList(PyInt(arg[p]), banlist[g])
    /\ Call("list", g, arg[p], "failed") \notin Entries(p)

\* C12 amended: `unban u` for a u that is no key of config.banned leaves the
\* roster as it is and still runs remove_gbs_user(u): in every opted guild
\* the bot knows whose banlist does not hold the int u and where u is
\* banned it issues one unban call, which lifts the ban unless it is
\* refused; it issues none in any other guild and no other ban changes.
C12_UnbanOfNonRosterLifts ==
    [][\A p \in Procs :
        (Returns(p) /\ UnbanOfNonRoster(p)') =>
            ( /\ banned = pre[p].banned
              /\ \A g \in Guilds :
                    /\ bans[g] \ {arg[p]} = pre[p].bans[g] \ {arg[p]}
                    /\ IF RguReached(p, g) /\ arg[p] \in pre[p].bans[g]
                       THEN /\ Count(p, {"unban"}, g, arg[p]) = 1
                            /\ Call("unban", g, arg[p], "success") \in Entries(p)
                                  => arg[p] \notin bans[g]
                       ELSE /\ Count(p, {"unban"}, g, arg[p]) = 0
                            /\ bans[g] = pre[p].bans[g] )']_vars

\* C12 witness: a guild opted in, one of its moderators then banned a user
\* who was never on the roster, and `unban` of that user has lifted the ban
\* while a guild that is not opted in kept its ban on the same user.
C12_Witness ==
    \E p \in Procs, g, h \in Guilds :
        /\ UnbanOfNonRoster(p)
        /\ ncmds = 2 /\ nfaults = 0 /\ nlocal = 1 /\ banned = <<>>
        /\ opted = <<g>> /\ arg[p] \notin snap[g]
        /\ Call("unban", g, arg[p], "success") \in Entries(p)
        /\ h # g /\ arg[p] \in bans[h]

\* An `unban u` command has returned; when it began guild g was opted in, u
\* was banned in g and had not been when g last opted in.  No moderator acts
\* in SpecRuns, so it is update_gbs that banned u in g since that opt-in.
C13_Case(p, g) ==
    /\ cmd[p] = "unban" /\ pc[p] = "done"
    /\ InList(g, opted)
    /\ arg[p] \notin snap[g]
    /\ arg[p] \in pre[p].bans[g]

\* The unban call for (g, u) the command made, and its effect.
C13_Lifted(p, g) ==
    /\ Count(p, {"unban"}, g, arg[p]) = 1
    /\ Call("unban", g, arg[p], "forbidden") \notin Entries(p)
          => arg[p] \notin bans[g]

Occurrences(lst, u) == Cardinality({i \in 1..Len(lst) : lst[i].v = u})

\* C14: every guild's banlist holds each user identifier at most once in
\* every reachable state, and an update_gbs run that follows a returned run
\* with config.banned, config.opted and the guilds' bans unchanged (and no
\* Discord call having failed) leaves every guild's banlist exactly as it
\* found it.
C14_BanlistSetAndFixedPoint ==
    /\ \A g \in Guilds, u \in Users : Occurrences(banlist[g], u) <= 1
    /\ \A p \in Procs :
          (UgsReturned(p) /\ pre[p].again /\ bans = pre[p].bans /\ nfaults = 0)
              => banlist = pre[p].banlist

====
